---- MODULE Spec2Model ----
(***************************************************************************)
(* Model of openquake.hazardlib.calc.hazard_curve (zero_curves,            *)
(* agg_curves, hazard_curves, calc_hazard_curves, hazard_curves_per_trt)   *)
(* and of openquake.baselib.performance.PerformanceMonitor.                *)
(*                                                                         *)
(* Probabilities are exact rationals <<n, d>> in lowest terms, so the      *)
(* numpy float products and inversions are modelled without rounding.      *)
(* An absent optional argument (Python None) is the empty tuple <<>>, a    *)
(* present one is the 1-tuple <<v>>.                                       *)
(***************************************************************************)
EXTENDS Integers, Sequences, FiniteSets, TLC

\* ------------------------------------------------------------------ bounds
MaxSources == 2
MaxRuptures == 2
NumSites == 2
MaxOps == 5
MaxMonitors == 3

\* ------------------------------------------------------- exact arithmetic
RECURSIVE GCD(_, _)
GCD(a, b) == IF b = 0 THEN a ELSE GCD(b, a % b)

Rat(n, d) == LET g == GCD(n, d) IN <<n \div g, d \div g>>

One == <<1, 1>>
Zero == <<0, 1>>

\* numpy `a * b`
Mul(a, b) == Rat(a[1] * b[1], a[2] * b[2])

\* numpy `1. - a`
OneMinus(a) == Rat(a[2] - a[1], a[2])

\* ------------------------------------------------------------- the inputs
Sites == 1..NumSites

\* the complete site collection: sids of the sites, in order
AllSids == [s \in 1..NumSites |-> s]

\* imtls: IMT string -> list of intensity measure levels
Imtls == ("PGA" :> <<1, 2>>) @@ ("SA(1)" :> <<1>>)

\* hazardlib IMT objects, the keys hazard_curves takes and returns
ImtObjects == {[name |-> "PGA", period |-> <<>>], [name |-> "SA", period |-> <<1>>]}

\* str(imt)
ImtToString(imt) == IF imt.name = "SA" THEN "SA(1)" ELSE imt.name

\* openquake.hazardlib.imt.from_string
from_string(s) ==
  IF s = "PGA" THEN [name |-> "PGA", period |-> <<>>]
  ELSE [name |-> "SA", period |-> <<1>>]

\* position of an IMT, used by the stub ground-motion model
ImtOffset(imt) == IF imt.name = "SA" THEN 1 ELSE 0

\* a rupture is placed on a line; sites sit at positions 1..NumSites
Locs == {3, 5}

TRTs == {"Active", "Stable"}

\* all tuples over S of length 0..n
SeqsUpTo(S, n) == UNION {[1..k -> S] : k \in 0..n}

RuptureLists == SeqsUpTo([loc : Locs], MaxRuptures)

\* source.id is an integer, source.source_id a string
SourceAt(k, trt, rups) ==
  [id |-> 100 + k, source_id |-> <<"src", k>>,
   tectonic_region_type |-> trt, ruptures |-> rups]

RECURSIVE Sum(_)
Sum(q) == IF q = <<>> THEN 0 ELSE q[1] + Sum(Tail(q))

\* the source lists of a call: at most MaxSources sources holding at most
\* MaxRuptures ruptures between them
SourceLists(trts) ==
  UNION {{[k \in 1..n |-> SourceAt(k, tr[k], rl[k])] :
            tr \in [1..n -> trts],
            rl \in {q \in [1..n -> RuptureLists] :
                      Sum([k \in 1..n |-> Len(q[k])]) <= MaxRuptures}} :
         n \in 0..MaxSources}

Abs(x) == IF x < 0 THEN 0 - x ELSE x

\* joyner-boore distance of a rupture to a site
Dist(rup, s) == Abs(rup.loc - s)

Min(S) == CHOOSE x \in S : \A y \in S : x <= y

\* integration distance of the distance filters
FilterDist == 1

\* filters.source_site_distance_filter / source_site_noop_filter:
\* the sites kept for a source; the pair is dropped when none is kept
SourceSites(filter, src, sites) ==
  IF filter = "noop" THEN sites
  ELSE {s \in sites : \E k \in 1..Len(src.ruptures) :
                         Dist(src.ruptures[k], s) <= FilterDist}

\* filters.rupture_site_distance_filter / rupture_site_noop_filter
RuptureSites(filter, rup, sites) ==
  IF filter = "noop" THEN sites
  ELSE {s \in sites : Dist(rup, s) <= FilterDist}

\* ContextMaker.make_contexts: the sids of sctx.sites; empty stands for
\* FarAwayRupture being raised
ContextSids(maximum_distance, rup, r_sites) ==
  IF maximum_distance = <<>> THEN r_sites
  ELSE {s \in r_sites : Dist(rup, s) <= maximum_distance[1]}

\* stub gsim.get_poes: the probability of exceedance of level l of imt at
\* site s for rupture rup; with truncation_level 0 it is a step function
PoeTable == <<<<1, 2>>, <<1, 4>>, <<3, 4>>, <<1, 1>>, <<0, 1>>>>

get_poes(gsim, rup, s, imt, l, truncation_level) ==
  LET k == ((rup.loc \div 2 + s) % 2) + (l - 1) + (gsim - 1) + ImtOffset(imt)
      p == PoeTable[(k % 5) + 1]
  IN IF truncation_level = <<0>>
     THEN (IF 2 * p[1] >= p[2] THEN One ELSE Zero)
     ELSE p

\* rupture.get_probability_no_exceedance(poes)
get_probability_no_exceedance(poe) == OneMinus(poe)

\* SiteCollection.expand(data, placeholder): back to the complete collection
expand(data, sids, placeholder) ==
  [s \in Sites |-> IF s \in sids THEN data[s] ELSE placeholder]

\* ascending tuple of a finite set of integers
RECURSIVE SortedSeq(_)
SortedSeq(S) == IF S = {} THEN <<>> ELSE <<Min(S)>> \o SortedSeq(S \ {Min(S)})

\* ------------------------------------------------------------ curve arrays
\* numpy.ones(len(sites), imt_dt), imt_dt having len(imtls[imt]) per field
ones(imtls) ==
  [s \in Sites |-> [imt \in DOMAIN imtls |-> [l \in 1..Len(imtls[imt]) |-> One]]]

\* zero_curves(num_sites, imtls); a field has 1 level when imls is None
zero_curves(num_sites, imtls) ==
  [s \in 1..num_sites |->
     [imt \in DOMAIN imtls |->
        [l \in 1..(IF imtls[imt] = <<>> THEN 1 ELSE Len(imtls[imt])) |-> Zero]]]

\* the accumulator is composed without being inverted first
agg_curves_uninverted(acc, cs) ==
  [s \in DOMAIN acc |->
     [imt \in DOMAIN acc[s] |->
        [l \in DOMAIN acc[s][imt] |->
           OneMinus(Mul(OneMinus(cs[s][imt][l]), acc[s][imt][l]))]]]

\* agg_curves(acc, curves): new is a copy of acc whose fields named by
\* curves become 1 - (1 - curves) * (1 - acc)
agg_curves(acc, cs) ==
  [s \in DOMAIN acc |->
     [imt \in DOMAIN acc[s] |->
        IF imt \in DOMAIN cs[s]
        THEN [l \in DOMAIN acc[s][imt] |->
                OneMinus(Mul(OneMinus(cs[s][imt][l]), OneMinus(acc[s][imt][l])))]
        ELSE acc[s][imt]]]

\* the final inversion, curves[i][imt] = 1. - curves[i][imt]
Inverted(curve, imtls) ==
  [s \in DOMAIN curve |->
     [imt \in DOMAIN curve[s] |->
        IF imt \in DOMAIN imtls
        THEN [l \in DOMAIN curve[s][imt] |-> OneMinus(curve[s][imt][l])]
        ELSE curve[s][imt]]]

\* the accumulator is overwritten instead of multiplied into
AccumulateOverwrites(curve, gsim, rup, in_scope, imtls, truncation_level) ==
  [s \in Sites |->
     [key \in DOMAIN curve[s] |->
        [l \in DOMAIN curve[s][key] |->
           IF s \in in_scope
           THEN get_probability_no_exceedance(
                  get_poes(gsim, rup, s, from_string(key), l, truncation_level))
           ELSE One]]]

\* the body of `for imt in imts` for one gsim:
\* curves[i][str(imt)] *= sctx.sites.expand(pno, 1.0)
Accumulate(curve, gsim, rup, sids, imtls, truncation_level) ==
  LET imts == {from_string(k) : k \in DOMAIN imtls}
      keys == {ImtToString(imt) : imt \in imts}
      pno(imt, l) ==
        [s \in sids |->
           get_probability_no_exceedance(
             get_poes(gsim, rup, s, imt, l, truncation_level))]
  IN [s \in Sites |->
        [key \in DOMAIN curve[s] |->
           IF key \in keys
           THEN [l \in DOMAIN curve[s][key] |->
                   Mul(curve[s][key][l],
                       expand(pno(from_string(key), l), sids, One)[s])]
           ELSE curve[s][key]]]

\* an exception as a collaborator raises it
Exc(etype, error, stage) == [etype |-> etype, error |-> error, stage |-> stage]

\* the error is re-raised as a RuntimeError
WrappedAsRuntimeError(src, exc) ==
  [etype |-> "RuntimeError",
   msg |-> [template |-> "An error occurred with source id=%s. Error: %s",
            source_id |-> src.source_id, error |-> exc.error],
   cause |-> exc]

\* lines 236-240, the except clause: raise_(etype, msg, tb) with
\* msg = 'An error occurred with source id=%s. Error: %s' filled with
\* source.source_id and str(err)
Wrapped(src, exc) ==
  [etype |-> exc.etype,
   msg |-> [template |-> "An error occurred with source id=%s. Error: %s",
            source_id |-> src.source_id, error |-> exc.error],
   cause |-> exc]

\* an exception that leaves the call as it was raised
Plain(exc) ==
  [etype |-> exc.etype,
   msg |-> [template |-> "%s", source_id |-> <<>>, error |-> exc.error],
   cause |-> exc]

NoError == Plain(Exc("", "", ""))

\* the exception types a collaborator raises
ErrTypes == {"ValueError", "KeyError"}

\* ----------------------------------------------------------------- state
VARIABLES
  api,            \* the function the caller invoked
  args,           \* its arguments
  pc,             \* position inside hazard_curves_per_trt
  call,           \* the arguments of the running hazard_curves_per_trt
  curves,         \* its list of accumulators, one per gsim
  i,              \* number of sources drawn from the source filter
  j,              \* number of ruptures drawn from the current source
  s_sites,        \* sites the source filter kept for the current source
  sids,           \* sctx.sites.sids of the current rupture
  t0,             \* time.time() at the start of the current source
  monitor,        \* calc_times, eff_ruptures and the two child monitors
  bbs,            \* the bounding boxes: site_id and the distances recorded
  now,            \* time.time()
  err,            \* the exception that ended the call
  cpc,            \* position inside calc_hazard_curves
  cargs,          \* the arguments of calc_hazard_curves
  sources_by_trt, \* its groups
  todo,           \* tectonic region types still to iterate
  acc,            \* its running curves
  hpc,            \* position inside hazard_curves
  hret,           \* its returned dictionary
  rets,           \* values returned to a caller that composes sub-lists
  mons,           \* the PerformanceMonitor objects
  nops,           \* number of monitor operations done
  hist,           \* per monitor: its own with-blocks since its last report
  last            \* the last monitor operation and what it returned

trtVars == <<pc, call, curves, i, j, s_sites, sids, t0, monitor, bbs, now, err>>
calcVars == <<cpc, cargs, sources_by_trt, todo, acc>>
hcVars == <<hpc, hret>>
\* what belongs to the callers of hazard_curves_per_trt and to the monitors
monVars == <<mons, nops, hist, last>>
callerVars == <<api, args, calcVars, hcVars, rets, monVars>>
vars == <<api, args, trtVars, calcVars, hcVars, rets, monVars>>

NoCall ==
  [sources |-> <<>>, imtls |-> Imtls, gsims |-> <<>>, truncation_level |-> <<>>,
   source_site_filter |-> "noop", rupture_site_filter |-> "noop",
   maximum_distance |-> <<>>]

\* monitor.calc_times = []; monitor.eff_ruptures = 0 and the two children
NewMonitor == [calc_times |-> <<>>, eff_ruptures |-> 0, ctx_mon |-> 0, pne_mon |-> 0]

\* bbs as handed in: one box per listed site id, nothing recorded yet
Boxes(site_ids) == [k \in 1..Len(site_ids) |-> [site_id |-> site_ids[k], dists |-> <<>>]]

\* ------------------------------------------------- hazard_curves_per_trt
source == call.sources[i]
rupture == source.ruptures[j + 1]

\* lines 186-196
Begin ==
  /\ pc = "begin"
  /\ curves' = [g \in 1..Len(call.gsims) |-> ones(call.imtls)]
  /\ monitor' = NewMonitor
  /\ i' = 0
  /\ pc' = "sources"
  /\ now' = now + 1
  /\ UNCHANGED <<callerVars, call, j, s_sites, sids, t0, bbs, err>>

\* line 197: the source filter drops a source none of whose sites it keeps
SkipSource ==
  /\ pc = "sources"
  /\ i < Len(call.sources)
  /\ SourceSites(call.source_site_filter, call.sources[i + 1], Sites) = {}
  /\ i' = i + 1
  /\ UNCHANGED <<callerVars, pc, call, curves, j, s_sites, sids, t0, monitor, bbs, now, err>>

\* lines 197-198: the next pair (source, s_sites); t0 = time.time()
TakeSource ==
  /\ pc = "sources"
  /\ i < Len(call.sources)
  /\ SourceSites(call.source_site_filter, call.sources[i + 1], Sites) # {}
  /\ i' = i + 1
  /\ s_sites' = SourceSites(call.source_site_filter, call.sources[i + 1], Sites)
  /\ t0' = now
  /\ j' = 0
  /\ pc' = "ruptures"
  /\ now' = now + 1
  /\ UNCHANGED <<callerVars, call, curves, sids, monitor, bbs, err>>

\* line 197: the source filter itself fails, outside the try block
SourceFilterFails ==
  /\ pc = "sources"
  /\ i < Len(call.sources)
  /\ \E etype \in ErrTypes : err' = Plain(Exc(etype, "filter", "source_site_filter"))
  /\ pc' = "raised"
  /\ UNCHANGED <<callerVars, call, curves, i, j, s_sites, sids, t0, monitor, bbs, now>>

\* lines 200-202: the rupture filter drops a rupture none of whose sites it keeps
SkipRupture ==
  /\ pc = "ruptures"
  /\ j < Len(source.ruptures)
  /\ RuptureSites(call.rupture_site_filter, rupture, s_sites) = {}
  /\ j' = j + 1
  /\ UNCHANGED <<callerVars, pc, call, curves, i, s_sites, sids, t0, monitor, bbs, now, err>>

r_sites == RuptureSites(call.rupture_site_filter, rupture, s_sites)

\* the rupture is counted as effective before make_contexts is called
FarAwayCounted ==
  /\ pc = "ruptures"
  /\ j < Len(source.ruptures)
  /\ r_sites # {}
  /\ ContextSids(call.maximum_distance, rupture, r_sites) = {}
  /\ j' = j + 1
  /\ monitor' = [monitor EXCEPT !.ctx_mon = @ + 1, !.eff_ruptures = @ + 1]
  /\ UNCHANGED <<callerVars, pc, call, curves, i, s_sites, sids, t0, bbs, now, err>>

\* lines 203-208: make_contexts raises FarAwayRupture; continue
FarAway ==
  /\ pc = "ruptures"
  /\ j < Len(source.ruptures)
  /\ r_sites # {}
  /\ ContextSids(call.maximum_distance, rupture, r_sites) = {}
  /\ j' = j + 1
  /\ monitor' = [monitor EXCEPT !.ctx_mon = @ + 1]
  /\ UNCHANGED <<callerVars, pc, call, curves, i, s_sites, sids, t0, bbs, now, err>>

ctx_sids == ContextSids(call.maximum_distance, rupture, r_sites)

\* bs = [bb for bb in bbs if bb.site_id in sids], as positions in bbs
BoxesInScope(boxes, in_scope) ==
  SortedSeq({k \in 1..Len(boxes) : boxes[k].site_id \in in_scope})

\* dctx.rjb: one distance per site of the context, in site order
JbDists(rup, in_scope) ==
  [k \in 1..Cardinality(in_scope) |-> Dist(rup, SortedSeq(in_scope)[k])]

\* assert len(bs) == len(jb_dists) == len(closest_points)
BoxAssertion(boxes, rup, in_scope) ==
  Len(BoxesInScope(boxes, in_scope)) = Len(JbDists(rup, in_scope))

\* for bb, dist, p in zip(bs, jb_dists, closest_points):
\*     if dist < maximum_distance: bb.update([dist], ...)
UpdatedBoxes(boxes, rup, in_scope, maximum_distance) ==
  LET bs == BoxesInScope(boxes, in_scope)
      ds == JbDists(rup, in_scope)
      n == IF Len(bs) < Len(ds) THEN Len(bs) ELSE Len(ds)
  IN [k \in 1..Len(boxes) |->
        IF \E m \in 1..n : bs[m] = k /\ ds[m] < maximum_distance
        THEN [boxes[k] EXCEPT !.dists =
                Append(@, ds[CHOOSE m \in 1..n : bs[m] = k])]
        ELSE boxes[k]]

\* lines 203-225: contexts are built, the rupture counts as effective and
\* the bounding boxes, when given, are updated.  With maximum_distance
\* None, `dist < None` is False under Python 2 (no box is updated).
ContextsBuilt ==
  /\ pc = "ruptures"
  /\ j < Len(source.ruptures)
  /\ r_sites # {}
  /\ ctx_sids # {}
  /\ \/ /\ bbs = <<>>
        /\ UNCHANGED bbs
     \/ /\ bbs # <<>>
        /\ BoxAssertion(bbs, rupture, ctx_sids)
        /\ call.maximum_distance # <<>>
        /\ bbs' = UpdatedBoxes(bbs, rupture, ctx_sids, call.maximum_distance[1])
     \/ /\ bbs # <<>>
        /\ BoxAssertion(bbs, rupture, ctx_sids)
        /\ call.maximum_distance = <<>>
        /\ UNCHANGED bbs
  /\ sids' = ctx_sids
  /\ monitor' = [monitor EXCEPT !.eff_ruptures = @ + 1, !.ctx_mon = @ + 1]
  /\ pc' = "poes"
  /\ now' = now + 1
  /\ UNCHANGED <<callerVars, call, curves, i, j, s_sites, t0, err>>

\* line 221: the assertion fails; lines 236-240 re-raise it
BoxAssertFails ==
  /\ pc = "ruptures"
  /\ j < Len(source.ruptures)
  /\ r_sites # {}
  /\ ctx_sids # {}
  /\ bbs # <<>>
  /\ ~BoxAssertion(bbs, rupture, ctx_sids)
  /\ monitor' = [monitor EXCEPT !.eff_ruptures = @ + 1, !.ctx_mon = @ + 1]
  /\ err' = Wrapped(source, Exc("AssertionError", "", "assert"))
  /\ pc' = "raised"
  /\ UNCHANGED <<callerVars, call, curves, i, j, s_sites, sids, t0, bbs, now>>

\* line 223: under Python 3 `dist < None` raises TypeError
BoxCompareFails ==
  /\ pc = "ruptures"
  /\ j < Len(source.ruptures)
  /\ r_sites # {}
  /\ ctx_sids # {}
  /\ bbs # <<>>
  /\ BoxAssertion(bbs, rupture, ctx_sids)
  /\ call.maximum_distance = <<>>
  /\ monitor' = [monitor EXCEPT !.eff_ruptures = @ + 1, !.ctx_mon = @ + 1]
  /\ err' = Wrapped(source, Exc("TypeError", "unorderable types", "compare"))
  /\ pc' = "raised"
  /\ UNCHANGED <<callerVars, call, curves, i, j, s_sites, sids, t0, bbs, now>>

\* lines 200-202 and 236-240: source.iter_ruptures() raises
IterRupturesFails ==
  /\ pc = "ruptures"
  /\ \E etype \in ErrTypes :
       err' = Wrapped(source, Exc(etype, "iter", "iter_ruptures"))
  /\ pc' = "raised"
  /\ UNCHANGED <<callerVars, call, curves, i, j, s_sites, sids, t0, monitor, bbs, now>>

\* lines 200-202 and 236-240: the rupture filter raises
RuptureFilterFails ==
  /\ pc = "ruptures"
  /\ j < Len(source.ruptures)
  /\ \E etype \in ErrTypes :
       err' = Wrapped(source, Exc(etype, "filter", "rupture_site_filter"))
  /\ pc' = "raised"
  /\ UNCHANGED <<callerVars, call, curves, i, j, s_sites, sids, t0, monitor, bbs, now>>

\* lines 203-208 and 236-240: make_contexts raises something other than
\* FarAwayRupture; the with block of ctx_mon is left
MakeContextsFails ==
  /\ pc = "ruptures"
  /\ j < Len(source.ruptures)
  /\ r_sites # {}
  /\ \E etype \in ErrTypes :
       err' = Wrapped(source, Exc(etype, "contexts", "make_contexts"))
  /\ monitor' = [monitor EXCEPT !.ctx_mon = @ + 1]
  /\ pc' = "raised"
  /\ UNCHANGED <<callerVars, call, curves, i, j, s_sites, sids, t0, bbs, now>>

\* lines 216-217 and 236-240: rupture.surface.get_closest_points raises
ClosestPointsFails ==
  /\ pc = "ruptures"
  /\ j < Len(source.ruptures)
  /\ r_sites # {}
  /\ ctx_sids # {}
  /\ bbs # <<>>
  /\ \E etype \in ErrTypes :
       err' = Wrapped(source, Exc(etype, "points", "get_closest_points"))
  /\ monitor' = [monitor EXCEPT !.eff_ruptures = @ + 1, !.ctx_mon = @ + 1]
  /\ pc' = "raised"
  /\ UNCHANGED <<callerVars, call, curves, i, j, s_sites, sids, t0, bbs, now>>

\* lines 227-235: every gsim multiplies the expanded probability of no
\* exceedance into its accumulator
ComputePoes ==
  /\ pc = "poes"
  /\ curves' = [g \in 1..Len(curves) |->
                  Accumulate(curves[g], call.gsims[g], rupture, sids,
                             call.imtls, call.truncation_level)]
  /\ monitor' = [monitor EXCEPT !.pne_mon = @ + Len(call.gsims)]
  /\ j' = j + 1
  /\ pc' = "ruptures"
  /\ now' = now + 1
  /\ UNCHANGED <<callerVars, call, i, s_sites, sids, t0, bbs, err>>

\* lines 227-240: get_poes or get_probability_no_exceedance raises for the
\* gsim at position bad; the accumulators before it keep their update
PoesFails ==
  /\ pc = "poes"
  /\ \E bad \in 1..Len(call.gsims), etype \in ErrTypes :
       /\ curves' = [g \in 1..Len(curves) |->
                       IF g < bad
                       THEN Accumulate(curves[g], call.gsims[g], rupture, sids,
                                       call.imtls, call.truncation_level)
                       ELSE curves[g]]
       /\ monitor' = [monitor EXCEPT !.pne_mon = @ + bad]
       /\ err' = Wrapped(source, Exc(etype, "poes", "get_poes"))
  /\ pc' = "raised"
  /\ UNCHANGED <<callerVars, call, i, j, s_sites, sids, t0, bbs, now>>

\* the position of the source is recorded instead of source.id
EndSourceByPosition ==
  /\ pc = "ruptures"
  /\ j = Len(source.ruptures)
  /\ monitor' = [monitor EXCEPT !.calc_times = Append(@, <<i, now - t0>>)]
  /\ pc' = "sources"
  /\ now' = now + 1
  /\ UNCHANGED <<callerVars, call, curves, i, j, s_sites, sids, t0, bbs, err>>

\* line 244: monitor.calc_times.append((source.id, time.time() - t0))
EndSource ==
  /\ pc = "ruptures"
  /\ j = Len(source.ruptures)
  /\ monitor' = [monitor EXCEPT !.calc_times = Append(@, <<source.id, now - t0>>)]
  /\ pc' = "sources"
  /\ now' = now + 1
  /\ UNCHANGED <<callerVars, call, curves, i, j, s_sites, sids, t0, bbs, err>>

\* lines 247-250: curves[i][imt] = 1. - curves[i][imt]; return curves
Invert ==
  /\ pc = "sources"
  /\ i = Len(call.sources)
  /\ curves' = [g \in 1..Len(curves) |-> Inverted(curves[g], call.imtls)]
  /\ pc' = "returned"
  /\ UNCHANGED <<callerVars, call, i, j, s_sites, sids, t0, monitor, bbs, now, err>>

\* ------------------------------------------- a call of hazard_curves_per_trt
GsimLists == {<<1>>, <<1, 2>>, <<2, 1>>}
Distances == {<<>>, <<0>>, <<2>>}
Filters == {"noop", "dist"}
BoxLists == {<<>>, AllSids, <<1>>}
Truncations == {<<>>, <<0>>}

TrtArgs ==
  {[sources |-> ss, imtls |-> Imtls, gsims |-> gs, truncation_level |-> <<>>,
    source_site_filter |-> sf, rupture_site_filter |-> rf,
    maximum_distance |-> md, bbs |-> bb] :
     ss \in SourceLists({"Active"}), gs \in GsimLists, sf \in Filters,
     rf \in Filters, md \in Distances, bb \in BoxLists}

NoOp == [op |-> "", m |-> 0, data |-> <<>>]

NoMonitors == mons = <<>> /\ nops = 0 /\ hist = <<>> /\ last = NoOp

Idle ==
  /\ cpc = "none" /\ cargs = NoCall /\ sources_by_trt = <<>> /\ todo = {}
  /\ acc = <<>> /\ hpc = "none" /\ hret = <<>> /\ rets = <<>>
  /\ NoMonitors

InitTrt ==
  /\ api = "hazard_curves_per_trt"
  /\ args \in TrtArgs
  /\ pc = "begin"
  /\ call = [k \in DOMAIN NoCall |-> args[k]]
  /\ curves = <<>> /\ i = 0 /\ j = 0 /\ s_sites = {} /\ sids = {} /\ t0 = 0
  /\ monitor = NewMonitor
  /\ bbs = Boxes(args.bbs)
  /\ now = 0
  /\ err = NoError
  /\ Idle

NextTrt ==
  \/ Begin \/ SkipSource \/ TakeSource \/ SourceFilterFails
  \/ SkipRupture \/ FarAway \/ ContextsBuilt \/ BoxAssertFails
  \/ BoxCompareFails \/ IterRupturesFails \/ RuptureFilterFails
  \/ MakeContextsFails \/ ClosestPointsFails \/ ComputePoes \/ PoesFails
  \/ EndSource \/ Invert

SpecTrt == InitTrt /\ [][NextTrt]_vars

\* ---------------------------------------------- the formula of the docstring
\* P(X>=x|T) = 1 - PROD PROD Prup_ij(X<x|T), written out for the arguments c
\* of one hazard_curves_per_trt call

\* sites of the context of rupture b of source a; empty when the source or
\* the rupture is filtered out or the rupture is too far
ContextOf(c, a, b) ==
  ContextSids(c.maximum_distance, c.sources[a].ruptures[b],
    RuptureSites(c.rupture_site_filter, c.sources[a].ruptures[b],
      SourceSites(c.source_site_filter, c.sources[a], Sites)))

\* the ruptures for which contexts are built
Contributing(c) ==
  {ab \in UNION {{<<a, b>> : b \in 1..Len(c.sources[a].ruptures)} :
                    a \in 1..Len(c.sources)} :
     ContextOf(c, ab[1], ab[2]) # {}}

\* the factor of one rupture at one site
Factor(c, ab, gsim, imt, l, s) ==
  IF s \in ContextOf(c, ab[1], ab[2])
  THEN OneMinus(get_poes(gsim, c.sources[ab[1]].ruptures[ab[2]], s,
                         from_string(imt), l, c.truncation_level))
  ELSE One

RECURSIVE ProductOver(_, _, _, _, _, _)
ProductOver(R, c, gsim, imt, l, s) ==
  IF R = {} THEN One
  ELSE LET ab == CHOOSE x \in R : TRUE
       IN Mul(Factor(c, ab, gsim, imt, l, s),
              ProductOver(R \ {ab}, c, gsim, imt, l, s))

ExpectedCurve(c, gsim) ==
  [s \in Sites |->
     [imt \in DOMAIN c.imtls |->
        [l \in 1..Len(c.imtls[imt]) |->
           OneMinus(ProductOver(Contributing(c), c, gsim, imt, l, s))]]]

\* C1: when no source raises, hazard_curves_per_trt returns one accumulator
\* per ground-motion model, in the order of the model list, each of length
\* len(sites), whose value for model g, site s, IMT m and level l is
\* 1 - PRODUCT of the no-exceedance factors of the contributing ruptures
\* (the factor is 1.0 at a site outside the rupture's context).
C1_PerTrtIsOneMinusProduct ==
  pc = "returned" =>
    /\ Len(curves) = Len(call.gsims)
    /\ \A g \in 1..Len(call.gsims) :
         /\ DOMAIN curves[g] = Sites
         /\ curves[g] = ExpectedCurve(call, call.gsims[g])

C1_Witness ==
  /\ pc = "returned"
  /\ monitor.eff_ruptures >= 2
  /\ Len(call.gsims) = 2
  /\ curves[1] # curves[2]
  /\ \E ab \in Contributing(call) : ContextOf(call, ab[1], ab[2]) # Sites
  /\ \E s \in Sites : curves[1][s]["PGA"][1][2] > 4

\* the current rupture is one for which make_contexts signals FarAwayRupture
AtFarAwayRupture ==
  /\ pc = "ruptures"
  /\ j < Len(source.ruptures)
  /\ r_sites # {}
  /\ ctx_sids = {}

\* C4: a rupture for which context building signals FarAwayRupture changes
\* no accumulator value, no bounding box and not the effective-rupture
\* counter; at normal return monitor.eff_ruptures is the number of ruptures
\* for which contexts were built, so a call none of whose ruptures is near
\* returns all-zero curves and counts 0 effective ruptures.
C4_FarAwayChangesNothing ==
  /\ [](pc = "returned" =>
          /\ monitor.eff_ruptures = Cardinality(Contributing(call))
          /\ (Contributing(call) = {} =>
                \A g \in 1..Len(curves) :
                  curves[g] = zero_curves(NumSites, call.imtls)))
  /\ [][AtFarAwayRupture =>
          /\ curves' = curves
          /\ bbs' = bbs
          /\ monitor'.eff_ruptures = monitor.eff_ruptures]_vars

C4_Witness ==
  /\ pc = "returned"
  /\ call.source_site_filter = "noop"
  /\ call.rupture_site_filter = "noop"
  /\ call.maximum_distance # <<>>
  /\ Len(call.gsims) >= 1
  /\ \E a \in 1..Len(call.sources) : Len(call.sources[a].ruptures) >= 2
  /\ monitor.eff_ruptures = 0
  /\ monitor.ctx_mon >= 2

\* sources whose rupture loop has been left
Finished ==
  IF pc \in {"ruptures", "poes"} \/ (pc = "raised" /\ err.cause.stage # "source_site_filter")
  THEN i - 1 ELSE i

\* source.id of the sources the source filter yields among the first n
YieldedIds(c, n) ==
  LET kept == SelectSeq(SubSeq(c.sources, 1, n),
                        LAMBDA src : SourceSites(c.source_site_filter, src, Sites) # {})
  IN [k \in 1..Len(kept) |-> kept[k].id]

\* C6: calc_times holds exactly one (source.id, elapsed seconds) pair for
\* each source the source filter yielded and whose rupture loop has
\* finished, in processing order, also when every rupture of the source was
\* skipped; a source the filter rejects has no pair, and the pair of the
\* source being processed is not there before its rupture loop ends.
C6_CalcTimesPerYieldedSource ==
  pc \in {"sources", "ruptures", "poes", "returned", "raised"} =>
    /\ Len(monitor.calc_times) = Len(YieldedIds(call, Finished))
    /\ \A k \in 1..Len(monitor.calc_times) :
         /\ monitor.calc_times[k][1] = YieldedIds(call, Finished)[k]
         /\ monitor.calc_times[k][2] >= 0

C6_Witness ==
  /\ pc = "returned"
  /\ Len(monitor.calc_times) = 2
  /\ monitor.calc_times[1][1] # monitor.calc_times[2][1]
  /\ \E a \in 1..Len(call.sources) :
       /\ Len(call.sources[a].ruptures) >= 1
       /\ \A b \in 1..Len(call.sources[a].ruptures) : ContextOf(call, a, b) = {}

\* ruptures that record a distance in the box of site sid
Recorded(c, sid) ==
  {ab \in Contributing(c) :
     /\ sid \in ContextOf(c, ab[1], ab[2])
     /\ Dist(c.sources[ab[1]].ruptures[ab[2]], sid) < c.maximum_distance[1]}

\* C9: supplying bounding boxes does not change the outcome: the bounding
\* box step never makes the call raise (its length assertion never fails,
\* also for bbs without one box per site and with maximum_distance unset),
\* the curves and eff_ruptures returned are those of the call without bbs,
\* and a box is updated exactly for the in-scope sites at a distance
\* strictly below maximum_distance.
C9_BoxesHaveNoEffect ==
  /\ ~(pc = "raised" /\ err.cause.stage \in {"assert", "compare"})
  /\ pc = "returned" =>
       /\ \A g \in 1..Len(curves) : curves[g] = ExpectedCurve(call, call.gsims[g])
       /\ monitor.eff_ruptures = Cardinality(Contributing(call))
       /\ call.maximum_distance # <<>> =>
            \A k \in 1..Len(bbs) :
              Len(bbs[k].dists) = Cardinality(Recorded(call, bbs[k].site_id))

\* ---------------------------------------------------- calc_hazard_curves
\* the sources of one tectonic region type, in their original order
Group(sources, trt) ==
  SelectSeq(sources, LAMBDA src : src.tectonic_region_type = trt)

\* nothing of hazard_curves_per_trt is running
TrtIdle ==
  /\ pc = "idle" /\ call = NoCall /\ curves = <<>> /\ i = 0 /\ j = 0
  /\ s_sites = {} /\ sids = {} /\ t0 = 0 /\ monitor = NewMonitor /\ bbs = <<>>
  /\ now = 0 /\ err = NoError

\* lines 156-159: group the sources by tectonic region type, zero curves
CalcGroup ==
  /\ cpc = "begin"
  /\ sources_by_trt' =
       [trt \in {cargs.sources[k].tectonic_region_type : k \in 1..Len(cargs.sources)}
          |-> Group(cargs.sources, trt)]
  /\ todo' = {cargs.sources[k].tectonic_region_type : k \in 1..Len(cargs.sources)}
  /\ acc' = zero_curves(NumSites, cargs.imtls)
  /\ cpc' = "loop"
  /\ UNCHANGED <<api, args, cargs, hcVars, rets, monVars, trtVars>>

\* lines 160-163: gsim_by_trt[trt] of the next group raises KeyError
\* before hazard_curves_per_trt is entered
CalcLookupFails ==
  /\ cpc = "loop"
  /\ \E trt \in todo :
       /\ trt \notin DOMAIN cargs.gsim_by_trt
       /\ err' = Plain(Exc("KeyError", trt, "gsim_by_trt"))
  /\ cpc' = "raised"
  /\ UNCHANGED <<api, args, cargs, sources_by_trt, todo, acc, hcVars, rets, monVars,
                 pc, call, curves, i, j, s_sites, sids, t0, monitor, bbs, now>>

\* a region without gsim is computed with the first gsim of the mapping
CalcCallWithFallback ==
  /\ cpc = "loop"
  /\ \E trt \in todo :
       /\ call' = [sources |-> sources_by_trt[trt], imtls |-> cargs.imtls,
                   gsims |-> <<IF trt \in DOMAIN cargs.gsim_by_trt
                               THEN cargs.gsim_by_trt[trt] ELSE 1>>,
                   truncation_level |-> cargs.truncation_level,
                   source_site_filter |-> cargs.source_site_filter,
                   rupture_site_filter |-> cargs.rupture_site_filter,
                   maximum_distance |-> <<>>]
       /\ todo' = todo \ {trt}
  /\ bbs' = <<>>
  /\ pc' = "begin"
  /\ cpc' = "call"
  /\ UNCHANGED <<api, args, cargs, sources_by_trt, acc, hcVars, rets, monVars,
                 curves, i, j, s_sites, sids, t0, monitor, now, err>>

\* lines 160-163: hazard_curves_per_trt is called for the next group with
\* the single gsim of the region, the truncation level and the two filters;
\* maximum_distance, bbs and monitor are left to their defaults
CalcCall ==
  /\ cpc = "loop"
  /\ \E trt \in todo :
       /\ trt \in DOMAIN cargs.gsim_by_trt
       /\ call' = [sources |-> sources_by_trt[trt], imtls |-> cargs.imtls,
                   gsims |-> <<cargs.gsim_by_trt[trt]>>,
                   truncation_level |-> cargs.truncation_level,
                   source_site_filter |-> cargs.source_site_filter,
                   rupture_site_filter |-> cargs.rupture_site_filter,
                   maximum_distance |-> <<>>]
       /\ todo' = todo \ {trt}
  /\ bbs' = <<>>
  /\ pc' = "begin"
  /\ cpc' = "call"
  /\ UNCHANGED <<api, args, cargs, sources_by_trt, acc, hcVars, rets, monVars,
                 curves, i, j, s_sites, sids, t0, monitor, now, err>>

\* line 161: curves = agg_curves(curves, hazard_curves_per_trt(...)[0])
CalcAgg ==
  /\ cpc = "call"
  /\ pc = "returned"
  /\ acc' = agg_curves(acc, curves[1])
  /\ cpc' = "loop"
  /\ pc' = "idle"
  /\ UNCHANGED <<api, args, cargs, sources_by_trt, todo, hcVars, rets, monVars,
                 call, curves, i, j, s_sites, sids, t0, monitor, bbs, now, err>>

\* line 164: return curves
CalcReturn ==
  /\ cpc = "loop"
  /\ todo = {}
  /\ cpc' = "returned"
  /\ UNCHANGED <<api, args, cargs, sources_by_trt, todo, acc, hcVars, rets, monVars,
                 trtVars>>

GsimMaps == {("Active" :> 1) @@ ("Stable" :> 2), ("Active" :> 1)}

CalcArgs ==
  {[sources |-> ss, imtls |-> Imtls, gsim_by_trt |-> gm, truncation_level |-> tl,
    source_site_filter |-> sf, rupture_site_filter |-> rf,
    maximum_distance |-> md] :
     ss \in SourceLists(TRTs), gm \in GsimMaps, tl \in Truncations,
     sf \in Filters, rf \in Filters, md \in {<<>>, <<2>>}}

InitCalc ==
  /\ api = "calc_hazard_curves"
  /\ args \in CalcArgs
  /\ cargs = args
  /\ cpc = "begin"
  /\ sources_by_trt = <<>> /\ todo = {} /\ acc = <<>>
  /\ hpc = "none" /\ hret = <<>> /\ rets = <<>> /\ NoMonitors
  /\ TrtIdle

\* called without maximum_distance, make_contexts never signals
\* FarAwayRupture; called without bbs, the bounding box step is skipped
NextCalc ==
  \/ CalcGroup \/ CalcLookupFails \/ CalcCall \/ CalcAgg \/ CalcReturn
  \/ Begin \/ SkipSource \/ TakeSource \/ SourceFilterFails
  \/ SkipRupture \/ ContextsBuilt
  \/ IterRupturesFails \/ RuptureFilterFails \/ MakeContextsFails
  \/ ComputePoes \/ PoesFails \/ EndSource \/ Invert

SpecCalc == InitCalc /\ [][NextCalc]_vars

\* ---------------------------------------------------------- hazard_curves
\* imtls keyed by IMT objects
ImtlsByObject ==
  ([name |-> "PGA", period |-> <<>>] :> <<1, 2>>) @@
  ([name |-> "SA", period |-> <<1>>] :> <<1>>)

\* line 90: imtls = {str(imt): imls for imt, imls in imtls.items()}
StringKeyed(imtls) ==
  [k \in {ImtToString(imt) : imt \in DOMAIN imtls} |->
     imtls[CHOOSE imt \in DOMAIN imtls : ImtToString(imt) = k]]

\* lines 90-94: calc_hazard_curves is called with the string-keyed imtls,
\* the truncation level and the two no-op filters
HcCall ==
  /\ hpc = "begin"
  /\ cargs' = [sources |-> args.sources, imtls |-> StringKeyed(args.imtls),
               gsim_by_trt |-> args.gsim_by_trt,
               truncation_level |-> args.truncation_level,
               source_site_filter |-> "noop",
               rupture_site_filter |-> "noop",
               maximum_distance |-> <<>>]
  /\ cpc' = "begin"
  /\ hpc' = "call"
  /\ UNCHANGED <<api, args, sources_by_trt, todo, acc, hret, rets, monVars, trtVars>>

\* line 95: return {from_string(imt): curves_by_imt[imt] for imt in imtls}
HcReturn ==
  /\ hpc = "call"
  /\ cpc = "returned"
  /\ hret' = [imt \in {from_string(k) : k \in DOMAIN cargs.imtls} |->
                [s \in DOMAIN acc |-> acc[s][ImtToString(imt)]]]
  /\ hpc' = "returned"
  /\ cpc' = "none"
  /\ UNCHANGED <<api, args, cargs, sources_by_trt, todo, acc, rets, monVars, trtVars>>

HcArgs ==
  {[sources |-> ss, imtls |-> ImtlsByObject, gsim_by_trt |-> gm,
    truncation_level |-> tl, source_site_filter |-> sf,
    rupture_site_filter |-> rf] :
     ss \in SourceLists(TRTs), gm \in GsimMaps, tl \in Truncations,
     sf \in Filters, rf \in Filters}

InitHc ==
  /\ api = "hazard_curves"
  /\ args \in HcArgs
  /\ hpc = "begin" /\ hret = <<>>
  /\ cpc = "none" /\ cargs = NoCall /\ sources_by_trt = <<>> /\ todo = {} /\ acc = <<>>
  /\ rets = <<>> /\ NoMonitors
  /\ TrtIdle

\* with the no-op filters no source and no rupture is ever skipped
NextHc ==
  \/ HcCall \/ HcReturn
  \/ CalcGroup \/ CalcLookupFails \/ CalcCall \/ CalcAgg \/ CalcReturn
  \/ Begin \/ TakeSource \/ SourceFilterFails
  \/ ContextsBuilt
  \/ IterRupturesFails \/ RuptureFilterFails \/ MakeContextsFails
  \/ ComputePoes \/ PoesFails \/ EndSource \/ Invert

SpecHc == InitHc /\ [][NextHc]_vars

\* --------------------- composing the curves of two sub-lists of the sources
\* the sources of sub-list part, in their original order
SubList(sources, parts, part) ==
  LET idx == SortedSeq({k \in 1..Len(sources) : parts[k] = part})
  IN [k \in 1..Len(idx) |-> sources[idx[k]]]

\* the source lists handed to the three calls: A, B and all the sources
SplitSources(n) ==
  IF n = 1 THEN SubList(args.sources, args.parts, "A")
  ELSE IF n = 2 THEN SubList(args.sources, args.parts, "B")
  ELSE args.sources

\* hazard_curves_per_trt is called on the next source list
SplitCall ==
  /\ pc = "idle"
  /\ Len(rets) < 3
  /\ call' = [k \in DOMAIN NoCall |->
                IF k = "sources" THEN SplitSources(Len(rets) + 1) ELSE args[k]]
  /\ bbs' = <<>>
  /\ pc' = "begin"
  /\ UNCHANGED <<callerVars, curves, i, j, s_sites, sids, t0, monitor, now, err>>

\* the caller keeps the returned list of curves
SplitReturn ==
  /\ pc = "returned"
  /\ Len(rets) < 3
  /\ rets' = Append(rets, curves)
  /\ pc' = "idle"
  /\ UNCHANGED <<api, args, calcVars, hcVars, monVars,
                 call, curves, i, j, s_sites, sids, t0, monitor, bbs, now, err>>

\* agg_curves(acc, curves) on the curves of A and B, for every gsim and in
\* both argument orders; acc and curves stay what they were
SplitAgg ==
  /\ pc = "idle"
  /\ Len(rets) = 3
  /\ rets' = rets \o
       << [g \in 1..Len(rets[1]) |-> agg_curves(rets[1][g], rets[2][g])],
          [g \in 1..Len(rets[1]) |-> agg_curves(rets[2][g], rets[1][g])] >>
  /\ UNCHANGED <<api, args, calcVars, hcVars, monVars, trtVars>>

SplitArgs ==
  UNION {{[sources |-> ss, parts |-> ps, imtls |-> Imtls, gsims |-> gs,
           truncation_level |-> <<>>, source_site_filter |-> f,
           rupture_site_filter |-> f, maximum_distance |-> md] :
            ps \in [1..Len(ss) -> {"A", "B"}], gs \in {<<1>>, <<2, 1>>},
            f \in Filters, md \in Distances} :
         ss \in SourceLists({"Active"})}

InitSplit ==
  /\ api = "compose"
  /\ args \in SplitArgs
  /\ Idle
  /\ TrtIdle

NextSplit ==
  \/ SplitCall \/ SplitReturn \/ SplitAgg
  \/ Begin \/ SkipSource \/ TakeSource
  \/ SkipRupture \/ FarAway \/ ContextsBuilt
  \/ ComputePoes \/ EndSource \/ Invert

SpecSplit == InitSplit /\ [][NextSplit]_vars

\* ------------------------------------------------------- both entry points
Init == InitTrt \/ InitCalc

Next ==
  \/ CalcGroup \/ CalcLookupFails \/ CalcCall \/ CalcAgg \/ CalcReturn
  \/ Begin \/ SkipSource \/ TakeSource \/ SourceFilterFails
  \/ SkipRupture \/ FarAway \/ ContextsBuilt \/ BoxAssertFails
  \/ BoxCompareFails \/ IterRupturesFails \/ RuptureFilterFails
  \/ MakeContextsFails \/ ClosestPointsFails \/ ComputePoes \/ PoesFails
  \/ EndSource \/ Invert

Spec == Init /\ [][Next]_vars

\* C2: an exception raised while a source is processed ends the call with an
\* exception of the same type whose message holds that source's source_id;
\* nothing is processed afterwards and neither hazard_curves_per_trt nor
\* calc_hazard_curves returns.
C2_SourceErrorIsWrapped ==
  /\ [](pc = "raised" /\ err.cause.stage # "source_site_filter" =>
          /\ err.etype = err.cause.etype
          /\ err.msg.template = "An error occurred with source id=%s. Error: %s"
          /\ err.msg.source_id = source.source_id
          /\ err.msg.error = err.cause.error)
  /\ [][pc = "raised" =>
          /\ pc' = "raised"
          /\ i' = i /\ j' = j /\ curves' = curves /\ monitor' = monitor
          /\ cpc' # "returned"]_vars

C2_Witness ==
  /\ pc = "raised"
  /\ api = "calc_hazard_curves"
  /\ err.cause.stage = "get_poes"
  /\ err.etype = "ValueError"
  /\ i = 1
  /\ Len(call.sources) = 2
  /\ monitor.eff_ruptures = 1

\* ------------------------------------- what calc_hazard_curves is to return
GroupCall(c, trt) ==
  [sources |-> Group(c.sources, trt), imtls |-> c.imtls,
   gsims |-> <<c.gsim_by_trt[trt]>>, truncation_level |-> c.truncation_level,
   source_site_filter |-> c.source_site_filter,
   rupture_site_filter |-> c.rupture_site_filter,
   maximum_distance |-> c.maximum_distance]

RECURSIVE FoldGroups(_, _, _)
FoldGroups(T, c, a) ==
  IF T = {} THEN a
  ELSE LET trt == CHOOSE t \in T : TRUE
       IN FoldGroups(T \ {trt}, c,
            agg_curves(a, ExpectedCurve(GroupCall(c, trt), c.gsim_by_trt[trt])))

TrtsOf(c) == {c.sources[k].tectonic_region_type : k \in 1..Len(c.sources)}

ExpectedCalc(c) == FoldGroups(TrtsOf(c), c, zero_curves(NumSites, c.imtls))

\* some source has a tectonic region type without a gsim
Unmapped(c) == \E trt \in TrtsOf(c) : trt \notin DOMAIN c.gsim_by_trt

Terminated == cpc \in {"returned", "raised"} \/ pc = "raised"

LookupError ==
  /\ cpc = "raised"
  /\ err.etype = "KeyError"
  /\ err.cause.stage = "gsim_by_trt"
  /\ err.msg.source_id = <<>>

C7_CalcHandsArgumentsOn ==
  (api = "calc_hazard_curves" /\ cpc = "returned") => acc = ExpectedCalc(cargs)

\* C8: hazard_curves returns, under the IMT object, what calc_hazard_curves
\* returns under str(imt) for the same sources, gsim_by_trt, truncation
\* level and filters.
C8_HazardCurvesIsCalc ==
  hpc = "returned" =>
    /\ DOMAIN hret = DOMAIN args.imtls
    /\ \A imt \in DOMAIN args.imtls : \A s \in Sites :
         hret[imt][s] =
           ExpectedCalc([sources |-> args.sources,
                         imtls |-> StringKeyed(args.imtls),
                         gsim_by_trt |-> args.gsim_by_trt,
                         truncation_level |-> args.truncation_level,
                         source_site_filter |-> args.source_site_filter,
                         rupture_site_filter |-> args.rupture_site_filter,
                         maximum_distance |-> <<>>])[s][ImtToString(imt)]

\* C3: for every split of the sources into sub-lists A and B, agg_curves of
\* the curves of A and of B, in either argument order, equals the curves of
\* all the sources for every gsim, site, IMT and level; agg_curves yields
\* 1 - (1 - curves) * (1 - acc) and leaves its arguments as they were.
C3_ComposeSubLists ==
  /\ [](Len(rets) = 5 =>
          /\ rets[4] = rets[3]
          /\ rets[5] = rets[3]
          /\ \A g \in 1..Len(rets[4]) : \A s \in Sites : \A imt \in DOMAIN Imtls :
               \A l \in 1..Len(Imtls[imt]) :
                 rets[4][g][s][imt][l] =
                   OneMinus(Mul(OneMinus(rets[2][g][s][imt][l]),
                                OneMinus(rets[1][g][s][imt][l]))))
  /\ [][Len(rets) = 3 => SubSeq(rets', 1, 3) = rets]_vars

C3_Witness ==
  /\ Len(rets) = 5
  /\ Len(SplitSources(1)) >= 1
  /\ Len(SplitSources(2)) >= 1
  /\ rets[1] # rets[2]
  /\ rets[3] # rets[1]
  /\ rets[3] # rets[2]
  /\ \E s \in Sites : rets[3][1][s]["PGA"][1][2] > 4

\* ---------------------------------------------------- PerformanceMonitor
\* the resident memory measure_mem() may read
RssValues == {5, 6}

\* the seconds a with block may take
BlockTimes == {1, 2}

\* PerformanceMonitor.__init__(operation, autoflush, measuremem)
MonitorInit(operation, autoflush, measuremem) ==
  [operation |-> operation, autoflush |-> autoflush, measuremem |-> measuremem,
   mem |-> 0, duration |-> 0, start_time |-> now, stop_time |-> now,
   start_mem |-> 0, children |-> <<>>, counts |-> 0, inside |-> FALSE]

\* PerformanceMonitor.new(operation, **kw): a fresh monitor that then takes
\* every attribute of self but operation, children and counts, and after
\* that the keywords; kw is <<>> or <<measuremem>>
MonitorNew(self, operation, kw) ==
  [MonitorInit(operation, FALSE, FALSE) EXCEPT
     !.autoflush = self.autoflush,
     !.measuremem = IF kw = <<>> THEN self.measuremem ELSE kw[1],
     !.mem = self.mem,
     !.duration = self.duration,
     !.start_time = self.start_time,
     !.stop_time = self.stop_time,
     !.start_mem = self.start_mem]

\* PerformanceMonitor.get_data(): no row for counts = 0, else one row
MonitorGetData(self) ==
  IF self.counts # 0
  THEN <<[operation |-> self.operation, time_sec |-> self.duration,
          memory_mb |-> IF self.measuremem THEN self.mem ELSE 0,
          counts |-> self.counts]>>
  ELSE <<>>

\* the monitors flush() of monitor m visits: m and the children below it
RECURSIVE Visited(_, _)
Visited(ms, m) ==
  {m} \cup UNION {Visited(ms, ms[m].children[k]) : k \in 1..Len(ms[m].children)}

\* PerformanceMonitor.flush() of m: every visited monitor that has data is
\* reset (duration, mem and counts become 0)
MonitorFlush(ms, m) ==
  [k \in 1..Len(ms) |->
     IF k \in Visited(ms, m) /\ MonitorGetData(ms[k]) # <<>>
     THEN [ms[k] EXCEPT !.duration = 0, !.mem = 0, !.counts = 0]
     ELSE ms[k]]

\* the history of the monitors flush() of m found data in starts afresh
HistAfterFlush(ms, h, m) ==
  [k \in 1..Len(ms) |->
     IF k \in Visited(ms, m) /\ MonitorGetData(ms[k]) # <<>>
     THEN [h[k] EXCEPT !.exits = 0, !.time = 0]
     ELSE h[k]]

NoHist == [exits |-> 0, time |-> 0, entered |-> 0]

\* __enter__
MonitorEnter ==
  /\ nops < MaxOps
  /\ \E m \in 1..Len(mons), rss \in RssValues :
       /\ ~mons[m].inside
       /\ mons' = [mons EXCEPT ![m].inside = TRUE,
                               ![m].start_time = now,
                               ![m].start_mem =
                                  IF mons[m].measuremem THEN rss ELSE @]
       /\ hist' = [hist EXCEPT ![m].entered = now]
       /\ last' = [op |-> "enter", m |-> m, data |-> <<>>]
  /\ nops' = nops + 1
  /\ UNCHANGED <<api, args, trtVars, calcVars, hcVars, rets>>

\* __exit__ and on_exit(): with autoflush the monitor is flushed at once
MonitorExit ==
  /\ nops < MaxOps
  /\ \E m \in 1..Len(mons), dt \in BlockTimes, rss \in RssValues :
       LET left == [mons EXCEPT
                      ![m].inside = FALSE,
                      ![m].mem = IF mons[m].measuremem
                                 THEN @ + rss - mons[m].start_mem ELSE @,
                      ![m].stop_time = now + dt,
                      ![m].duration = @ + (now + dt) - mons[m].start_time,
                      ![m].counts = @ + 1]
           done == [hist EXCEPT ![m].exits = @ + 1,
                                ![m].time = @ + (now + dt) - hist[m].entered]
       IN /\ mons[m].inside
          /\ now' = now + dt
          /\ IF mons[m].autoflush
             THEN /\ mons' = MonitorFlush(left, m)
                  /\ hist' = HistAfterFlush(left, done, m)
                  /\ last' = [op |-> "flush", m |-> m, data |-> MonitorGetData(left[m])]
             ELSE /\ mons' = left
                  /\ hist' = done
                  /\ last' = [op |-> "exit", m |-> m, data |-> <<>>]
  /\ nops' = nops + 1
  /\ UNCHANGED <<api, args, pc, call, curves, i, j, s_sites, sids, t0, monitor, bbs,
                 err, calcVars, hcVars, rets>>

\* __call__(operation, measuremem=False): a child, kept in self.children
MonitorCall ==
  /\ nops < MaxOps
  /\ Len(mons) < MaxMonitors
  /\ \E m \in 1..Len(mons) :
       /\ mons' = Append([mons EXCEPT ![m].children = Append(@, Len(mons) + 1)],
                         MonitorNew(mons[m], "child", <<FALSE>>))
       /\ last' = [op |-> "call", m |-> m, data |-> <<>>]
  /\ hist' = Append(hist, NoHist)
  /\ nops' = nops + 1
  /\ UNCHANGED <<api, args, trtVars, calcVars, hcVars, rets>>

\* new(operation): a copy the monitor does not keep
MonitorCopy ==
  /\ nops < MaxOps
  /\ Len(mons) < MaxMonitors
  /\ \E m \in 1..Len(mons) :
       /\ mons' = Append(mons, MonitorNew(mons[m], "copy", <<>>))
       /\ last' = [op |-> "new", m |-> m, data |-> <<>>]
  /\ hist' = Append(hist, NoHist)
  /\ nops' = nops + 1
  /\ UNCHANGED <<api, args, trtVars, calcVars, hcVars, rets>>

\* flush()
MonitorFlushes ==
  /\ nops < MaxOps
  /\ \E m \in 1..Len(mons) :
       /\ mons' = MonitorFlush(mons, m)
       /\ hist' = HistAfterFlush(mons, hist, m)
       /\ last' = [op |-> "flush", m |-> m, data |-> MonitorGetData(mons[m])]
  /\ nops' = nops + 1
  /\ UNCHANGED <<api, args, trtVars, calcVars, hcVars, rets>>

InitMon ==
  /\ api = "PerformanceMonitor"
  /\ args = <<>>
  /\ TrtIdle
  /\ cpc = "none" /\ cargs = NoCall /\ sources_by_trt = <<>> /\ todo = {}
  /\ acc = <<>> /\ hpc = "none" /\ hret = <<>> /\ rets = <<>>
  /\ \E af \in BOOLEAN, mm \in BOOLEAN : mons = <<MonitorInit("root", af, mm)>>
  /\ hist = <<NoHist>>
  /\ nops = 0
  /\ last = NoOp

NextMon ==
  \/ MonitorEnter \/ MonitorExit \/ MonitorCall \/ MonitorCopy \/ MonitorFlushes

SpecMon == InitMon /\ [][NextMon]_vars

\* C10: for every monitor, also one made by new() or by calling a monitor,
\* counts is the number of its own with blocks left since it was created or
\* last flushed with data, get_data() has one row exactly when counts > 0
\* and its time_sec is the time spent in those blocks, and right after a
\* flush that reported data duration, mem and counts are 0 and get_data()
\* is empty.
C10_MonitorCountsOwnBlocks ==
  /\ \A m \in 1..Len(mons) :
       /\ mons[m].counts = hist[m].exits
       /\ Len(MonitorGetData(mons[m])) = IF mons[m].counts > 0 THEN 1 ELSE 0
       /\ mons[m].counts > 0 =>
            MonitorGetData(mons[m])[1].time_sec = hist[m].time
  /\ (last.op = "flush" /\ last.data # <<>>) =>
       /\ mons[last.m].duration = 0
       /\ mons[last.m].mem = 0
       /\ mons[last.m].counts = 0
       /\ MonitorGetData(mons[last.m]) = <<>>

====
